---- MODULE Spec2Model ----
(***************************************************************************)
(* Transaction-driven cohort analysis (src/utils/cohortAnalysis.ts).       *)
(*                                                                         *)
(* Instants.  A JavaScript Date is an instant; the model writes it as a    *)
(* number of hours on a calendar in which every month has 31 day slots, so *)
(* that the order of instants and the local year/month of an instant are   *)
(* those of the real calendar for every instant the program builds: UTC    *)
(* midnight of a date string, and local midnight of the 1st of a month.    *)
(* The host's UTC offset tz is in hours (east positive).                   *)
(***************************************************************************)
EXTENDS Integers, Sequences, FiniteSets, TLC

VARIABLES
    transactions,   \* the TransactionData[] handed to the program
    tz,             \* the host's UTC offset
    result,         \* the call of calculateRealCohortAnalysis and what it gave
    summaries,      \* the call of processTransactionData and what it gave
    period,         \* the Dates handed to the period helpers and what they gave
    parser,         \* parseTransactionCSV: the rows handled and what it collected
    app             \* the state of the App component and of its file upload

vars == <<transactions, tz, result, summaries, period, parser, app>>

-----------------------------------------------------------------------------
(* Program constants *)

Horizon == 24

TransactionTypes == {"new", "expansion", "contraction", "churn", "renewal"}

CohortTypes == {"month", "quarter", "year"}

SettingsSet == [includeExpansionARR : BOOLEAN, excludeChurnedAccounts : BOOLEAN]

-----------------------------------------------------------------------------
(* Bounds of the model *)

\* The longest input sequence.
MaxTx == 2

AccountIds == {"A", "B"}

\* UTC offsets of the host, in hours: west of, at, and east of Greenwich.
HostOffsets == {-5, 0, 2}

\* The first day of a quarter, a day inside it, the first day of the next.
InputDates ==
    { [y |-> 2023, m |-> 1, d |-> 1],
      [y |-> 2023, m |-> 2, d |-> 15],
      [y |-> 2023, m |-> 4, d |-> 1] }

\* An acquisition, a growth above it, and a churn row that still carries an
\* amount (the parser accepts any amount >= 0 on any kind of row).
InputShapes ==
    { [transactionType |-> "new",       arr |-> 1],
      [transactionType |-> "expansion", arr |-> 2],
      [transactionType |-> "churn",     arr |-> 1] }

-----------------------------------------------------------------------------
(* Arithmetic helpers *)

Min(a, b) == IF a < b THEN a ELSE b

Max(a, b) == IF a > b THEN a ELSE b

-----------------------------------------------------------------------------
(* Dates *)

\* new Date("YYYY-MM-DD"): a date-only string is UTC midnight of that day.
ParseDate(s) == ((s.y * 12 + (s.m - 1)) * 31 + (s.d - 1)) * 24

\* Date.prototype.getFullYear / getMonth: fields of the host's local time.
getFullYear(t, off) == ((t + off) \div 744) \div 12

getMonth(t, off) == ((t + off) \div 744) % 12

\* new Date(year, month, 1): local midnight of the 1st; month may exceed 11.
NewLocalDate(year, month, off) == (year * 12 + month) * 744 - off

\* d = new Date(t); d.setMonth(d.getMonth() + n)
AddMonths(t, n, off) ==
    LET local == t + off
    IN  (local \div 744 + n) * 744 + (local % 744) - off

\* A month written without padStart.
Pad2_NoPad(n) == ToString(n)

\* String(n).padStart(2, '0')
Pad2(n) == IF n < 10 THEN "0" \o ToString(n) ELSE ToString(n)

\* A switch that labels every granularity as a quarter.
formatCohortName_QuarterForAll(date, cohortType, off) ==
    "Q" \o ToString((getMonth(date, off) \div 3) + 1)
        \o " " \o ToString(getFullYear(date, off))

formatCohortName(date, cohortType, off) ==
    LET year  == getFullYear(date, off)
        month == getMonth(date, off)
    IN  CASE cohortType = "month"   -> ToString(year) \o "-" \o Pad2(month + 1)
          [] cohortType = "quarter" -> "Q" \o ToString((month \div 3) + 1) \o " " \o ToString(year)
          [] cohortType = "year"    -> ToString(year)
          [] OTHER -> "Q" \o ToString((month \div 3) + 1) \o " " \o ToString(year)

\* A start date that is the 1st of the date's month for every granularity.
getCohortStartDate_AlwaysMonth(date, cohortType, off) ==
    NewLocalDate(getFullYear(date, off), getMonth(date, off), off)

getCohortStartDate(date, cohortType, off) ==
    LET year  == getFullYear(date, off)
        month == getMonth(date, off)
    IN  CASE cohortType = "month"   -> NewLocalDate(year, month, off)
          [] cohortType = "quarter" -> NewLocalDate(year, (month \div 3) * 3, off)
          [] cohortType = "year"    -> NewLocalDate(year, 0, off)
          [] OTHER -> NewLocalDate(year, (month \div 3) * 3, off)

\* A difference that forgets the years.
getMonthDifference_NoYear(cohortDate, dataDate, off) ==
    getMonth(dataDate, off) - getMonth(cohortDate, off)

getMonthDifference(cohortDate, dataDate, off) ==
    LET cohortYear  == getFullYear(cohortDate, off)
        cohortMonth == getMonth(cohortDate, off)
        dataYear    == getFullYear(dataDate, off)
        dataMonth   == getMonth(dataDate, off)
    IN  (dataYear - cohortYear) * 12 + (dataMonth - cohortMonth)

-----------------------------------------------------------------------------
(* Array helpers *)

\* Array.prototype.find, given the elements that satisfy the test in array
\* order: the first of them as a one-element sequence, <<>> for undefined.
Find(hits) == IF hits = <<>> THEN <<>> ELSE <<hits[1]>>

\* A grouping that opens a new entry for every element, seen or not.
KeysInOrder_NoDedup(keys) == keys

\* The keys of a Map in insertion order: the first occurrences in keys.
RECURSIVE KeysInOrder(_)
KeysInOrder(keys) ==
    IF keys = <<>> THEN <<>>
    ELSE LET front == KeysInOrder(SubSeq(keys, 1, Len(keys) - 1))
             k     == keys[Len(keys)]
         IN  IF \E i \in 1..Len(front) : front[i] = k THEN front
             ELSE Append(front, k)

\* An array left as it was pushed.
SortByKey_InputOrder(s) == s

\* Array.prototype.sort with the comparator a.key - b.key: a stable sort.
RECURSIVE SortByKey(_)
SortByKey(s) ==
    IF s = <<>> THEN <<>>
    ELSE LET front == SortByKey(SubSeq(s, 1, Len(s) - 1))
             x     == s[Len(s)]
             keep  == SelectSeq(front, LAMBDA e : e.key <= x.key)
             rest  == SelectSeq(front, LAMBDA e : e.key > x.key)
         IN  keep \o <<x>> \o rest

\* Array.prototype.reduce((sum, x) => sum + x, 0)
RECURSIVE SumSeq(_)
SumSeq(s) ==
    IF s = <<>> THEN 0
    ELSE SumSeq(SubSeq(s, 1, Len(s) - 1)) + s[Len(s)]

-----------------------------------------------------------------------------
(* processTransactionData *)

TxTime(t) == ParseDate(t.transactionDate)

\* A status that looks at the kind of the last transaction only.
isActive_NotChurn(lastTransaction) ==
    lastTransaction.transactionType # "churn"

\* Line 73
isActive(lastTransaction) ==
    lastTransaction.transactionType # "churn" /\ lastTransaction.arr > 0

\* A grouping that sorts the caller's array itself, by date.
InputAfterCall_SortedInPlace(txs) ==
    LET keyed == SortByKey([i \in 1..Len(txs) |->
                               [key |-> TxTime(txs[i]), val |-> txs[i]]])
    IN  [i \in 1..Len(keyed) |-> keyed[i].val]

\* The caller's array after the call.  Lines 52-58 only read it: each row is
\* pushed into the array the Map holds for its accountId, and it is that
\* array which line 65 sorts in place; no statement assigns to a field of a
\* row (line 141 assigns cohortName on the summaries built at lines 76-83).
InputAfterCall(txs) == txs

processTransactionData(txs) ==
    LET ids == KeysInOrder([i \in 1..Len(txs) |-> txs[i].accountId])
        Summary(accountId) ==
            LET customerTransactions ==
                    SelectSeq(txs, LAMBDA t : t.accountId = accountId)
                keyed == SortByKey([i \in 1..Len(customerTransactions) |->
                                     [key |-> TxTime(customerTransactions[i]),
                                      val |-> customerTransactions[i]]])
                sortedTransactions == [i \in 1..Len(keyed) |-> keyed[i].val]
                firstTransaction == sortedTransactions[1]
                lastTransaction  == sortedTransactions[Len(sortedTransactions)]
            IN  [ accountId            |-> accountId,
                  firstTransactionDate |-> firstTransaction.transactionDate,
                  transactions         |-> sortedTransactions,
                  currentARR           |-> IF isActive(lastTransaction)
                                           THEN lastTransaction.arr ELSE 0,
                  isActive             |-> isActive(lastTransaction),
                  cohortName           |-> "" ]
    IN  [i \in 1..Len(ids) |-> Summary(ids[i])]

-----------------------------------------------------------------------------
(* getCustomerRevenueForMonth *)

\* A churn branch that keeps the churn row's amount unless churned accounts
\* are excluded.
ChurnedRevenue_KeepUnlessExcluded(latestTransaction, settings) ==
    IF settings.excludeChurnedAccounts THEN 0 ELSE latestTransaction.arr

\* A churn branch that takes the churned amount out of the cohort's total.
ChurnedRevenue_Subtract(latestTransaction, settings) ==
    IF settings.excludeChurnedAccounts THEN 0 ELSE 0 - latestTransaction.arr

\* Line 106
ChurnedRevenue(latestTransaction, settings) ==
    IF settings.excludeChurnedAccounts THEN 0 ELSE 0

\* A clipping that sets the revenue to the original amount instead of taking
\* the smaller of the two.
getCustomerRevenueForMonth_ResetToOriginal(customer, targetDate, settings) ==
    LET relevantTransactions ==
            SelectSeq(customer.transactions, LAMBDA t : TxTime(t) <= targetDate)
        latestTransaction == relevantTransactions[Len(relevantTransactions)]
        originalTransaction ==
            Find(SelectSeq(customer.transactions,
                           LAMBDA t : t.arr > 0 /\ t.transactionType = "new"))
        originalARR == IF originalTransaction # <<>>
                       THEN originalTransaction[1].arr
                       ELSE latestTransaction.arr
        revenue == IF ~settings.includeExpansionARR
                   THEN originalARR
                   ELSE latestTransaction.arr
    IN  IF relevantTransactions = <<>> THEN 0
        ELSE IF latestTransaction.transactionType = "churn"
             THEN ChurnedRevenue(latestTransaction, settings)
        ELSE Max(revenue, 0)

getCustomerRevenueForMonth(customer, targetDate, settings) ==
    LET relevantTransactions ==
            SelectSeq(customer.transactions, LAMBDA t : TxTime(t) <= targetDate)
        latestTransaction == relevantTransactions[Len(relevantTransactions)]
        originalTransaction ==
            Find(SelectSeq(customer.transactions,
                           LAMBDA t : t.arr > 0 /\ t.transactionType = "new"))
        originalARR == IF originalTransaction # <<>>
                       THEN originalTransaction[1].arr
                       ELSE latestTransaction.arr
        revenue == IF ~settings.includeExpansionARR
                   THEN Min(latestTransaction.arr, originalARR)
                   ELSE latestTransaction.arr
    IN  IF relevantTransactions = <<>> THEN 0
        ELSE IF latestTransaction.transactionType = "churn"
             THEN ChurnedRevenue(latestTransaction, settings)
        ELSE Max(revenue, 0)

-----------------------------------------------------------------------------
(* calculateRealCohortAnalysis *)

\* A grouping by the date of the customer's latest transaction.
AssignCohortNames_LatestDate(customers, cohortType, off) ==
    [i \in 1..Len(customers) |->
        LET latest == customers[i].transactions[Len(customers[i].transactions)]
            cohortStartDate ==
                getCohortStartDate(TxTime(latest), cohortType, off)
        IN  [customers[i] EXCEPT
                !.cohortName = formatCohortName(cohortStartDate, cohortType, off)]]

\* Lines 136-148: each summary gets the label of its first transaction's bucket.
AssignCohortNames(customers, cohortType, off) ==
    [i \in 1..Len(customers) |->
        LET firstTransactionDate == ParseDate(customers[i].firstTransactionDate)
            cohortStartDate == getCohortStartDate(firstTransactionDate, cohortType, off)
        IN  [customers[i] EXCEPT
                !.cohortName = formatCohortName(cohortStartDate, cohortType, off)]]

\* Lines 160-164: the sum of each member's first 'new' transaction.
InitialRevenue(cohortCustomers) ==
    SumSeq([i \in 1..Len(cohortCustomers) |->
        LET firstTransaction ==
                Find(SelectSeq(cohortCustomers[i].transactions,
                               LAMBDA t : t.transactionType = "new"))
        IN  IF firstTransaction # <<>> THEN firstTransaction[1].arr ELSE 0])

\* Lines 171-181: the cohort's total at one offset.
TotalRevenue(cohortCustomers, cohortStartDate, monthOffset, settings, off) ==
    LET targetDate == AddMonths(cohortStartDate, monthOffset, off)
    IN  SumSeq([i \in 1..Len(cohortCustomers) |->
            getCustomerRevenueForMonth(cohortCustomers[i], targetDate, settings)])

\* A loop that starts at offset 0 and so overwrites the initial revenue.
RetentionByMonth_LoopFromZero(cohortCustomers, cohortStartDate, initialRevenue, settings, off) ==
    [monthOffset \in 0..Horizon |->
        TotalRevenue(cohortCustomers, cohortStartDate, monthOffset, settings, off)]

\* Lines 166-181: offset 0 is the initial revenue, offsets 1..24 are totals.
RetentionByMonth(cohortCustomers, cohortStartDate, initialRevenue, settings, off) ==
    [monthOffset \in 0..Horizon |->
        IF monthOffset = 0 THEN initialRevenue
        ELSE TotalRevenue(cohortCustomers, cohortStartDate, monthOffset, settings, off)]

\* Lines 154-201: one entry of cohortGroups becomes one CohortData.
BuildCohort(cohortName, cohortCustomers, cohortType, settings, off) ==
    LET cohortStartDate ==
            getCohortStartDate(ParseDate(cohortCustomers[1].firstTransactionDate),
                               cohortType, off)
        initialRevenue == InitialRevenue(cohortCustomers)
    IN  [ cohortName     |-> cohortName,
          cohortDate     |-> cohortStartDate,
          initialRevenue |-> initialRevenue,
          customers      |-> [i \in 1..Len(cohortCustomers) |->
                                [ accountId |-> cohortCustomers[i].accountId,
                                  closeDate |-> cohortCustomers[i].firstTransactionDate,
                                  arr       |-> cohortCustomers[i].currentARR ]],
          retentionByMonth |-> RetentionByMonth(cohortCustomers, cohortStartDate,
                                                initialRevenue, settings, off) ]

\* The test of line 183 written >= 0: every offset counts.
LastPositiveOffset_CountsZero(retentionByMonth, upTo) ==
    IF retentionByMonth[upTo] >= 0 THEN upTo ELSE 0

\* Lines 170-186 for one cohort: what the loop's updates of lines 183-185
\* amount to after offsets 1..upTo, the last offset with a positive total.
RECURSIVE LastPositiveOffset(_, _)
LastPositiveOffset(retentionByMonth, upTo) ==
    IF upTo = 0 THEN 0
    ELSE IF retentionByMonth[upTo] > 0 THEN upTo
    ELSE LastPositiveOffset(retentionByMonth, upTo - 1)

\* maxMonths (line 152: 0) after the cohorts have been visited in Map order:
\* each visit raises it to the cohort's last positive offset (line 184).
RECURSIVE TrackMaxMonths(_)
TrackMaxMonths(cohorts) ==
    IF cohorts = <<>> THEN 0
    ELSE Max(TrackMaxMonths(SubSeq(cohorts, 1, Len(cohorts) - 1)),
             LastPositiveOffset(cohorts[Len(cohorts)].retentionByMonth, Horizon))

\* Math.max written for Math.min.
CapMaxMonths_Max(maxMonths) == Max(maxMonths, Horizon)

\* Line 209
CapMaxMonths(maxMonths) == Min(maxMonths, Horizon)

\* The cohorts left in the order in which the Map yields them.
SortCohorts_MapOrder(cohorts) == cohorts

\* Line 205
SortCohorts(cohorts) ==
    LET keyed == SortByKey([i \in 1..Len(cohorts) |->
                     [key |-> cohorts[i].cohortDate, val |-> cohorts[i]]])
    IN  [i \in 1..Len(keyed) |-> keyed[i].val]

calculateRealCohortAnalysis(txs, cohortType, settings, off) ==
    LET customers == AssignCohortNames(processTransactionData(txs), cohortType, off)
        names     == KeysInOrder([i \in 1..Len(customers) |-> customers[i].cohortName])
        cohorts   == [k \in 1..Len(names) |->
                        BuildCohort(names[k],
                                    SelectSeq(customers,
                                              LAMBDA c : c.cohortName = names[k]),
                                    cohortType, settings, off)]
    IN  [ cohorts   |-> SortCohorts(cohorts),
          maxMonths |-> CapMaxMonths(TrackMaxMonths(cohorts)) ]

-----------------------------------------------------------------------------
(* The state machine: an input is given, the analysis is called on it. *)

Transaction ==
    { [ accountId       |-> a,
        transactionDate |-> d,
        arr             |-> sh.arr,
        transactionType |-> sh.transactionType ] :
      a \in AccountIds, d \in InputDates, sh \in InputShapes }

SeqsUpTo(S, n) == UNION { [1..k -> S] : k \in 0..n }

DefaultSettings == [includeExpansionARR |-> TRUE, excludeChurnedAccounts |-> FALSE]

\* outcome is how the call ended: "returned" with the report, or the name of
\* the error it threw.
NoResult ==
    [ called     |-> FALSE,
      cohortType |-> "quarter",
      settings   |-> DefaultSettings,
      outcome    |-> "none",
      report     |-> [cohorts |-> <<>>, maxMonths |-> 0] ]

NoSummaries == [called |-> FALSE, customers |-> <<>>]

NoPeriod == [called |-> FALSE]

\* No file has been handed to the parser.
NoParser == [status |-> "idle", total |-> 0, index |-> 0, data |-> <<>>, errors |-> <<>>]

\* The App component as mounted (App.tsx lines 11-18), with no upload under
\* way.
NoApp ==
    [ customerData     |-> <<>>,
      cohortAnalysis   |-> <<>>,
      cohortType       |-> "quarter",
      analysisSettings |-> DefaultSettings,
      errors           |-> <<>>,
      fileUpload       |-> "smart",
      isLoading        |-> FALSE,
      result           |-> <<>>,
      calls            |-> 0 ]

\* Account ids are only compared for equality, so the account of the first
\* row is fixed: every other input is one of these with its ids renamed.
Inputs ==
    { txs \in SeqsUpTo(Transaction, MaxTx) :
        txs # <<>> => txs[1].accountId = "A" }

Init ==
    /\ transactions \in Inputs
    /\ tz \in HostOffsets
    /\ result = NoResult
    /\ summaries = NoSummaries
    /\ period = NoPeriod
    /\ parser = NoParser
    /\ app = NoApp

\* The function has no throw statement and calls nothing that throws on these
\* arguments: every call returns a report.
Analyze(cohortType, settings) ==
    /\ ~result.called
    /\ result' = [ called     |-> TRUE,
                   cohortType |-> cohortType,
                   settings   |-> settings,
                   outcome    |-> "returned",
                   report     |-> calculateRealCohortAnalysis(
                                      transactions, cohortType, settings, tz) ]
    /\ transactions' = InputAfterCall(transactions)
    /\ UNCHANGED <<tz, summaries, period, parser, app>>

Next == \E cohortType \in CohortTypes, settings \in SettingsSet :
            Analyze(cohortType, settings)

Spec == Init /\ [][Next]_vars

TypeOK ==
    /\ result.called \in BOOLEAN
    /\ result.report.maxMonths \in 0..Horizon

-----------------------------------------------------------------------------
(* The analysis called by JavaScript: CohortType is erased at run time, so *)
(* the cohortType argument may be any string.                              *)

RuntimeGranularities == CohortTypes \cup {"week"}

NextAnyGranularity ==
    \E cohortType \in RuntimeGranularities, settings \in SettingsSet :
        Analyze(cohortType, settings)

SpecAnyGranularity == Init /\ [][NextAnyGranularity]_vars

-----------------------------------------------------------------------------
(* The period helpers called on Dates.  A Date is given by the fields of    *)
(* its local time, as new Date(y, m, d, h) builds it; m counts from 0.      *)

\* Both ends of two years, the first and last day and hour of every month.
PeriodDates ==
    [y : {2022, 2023}, m : 0..11, d : {1, 31}, h : {0, 23}]

\* The dates the first one is compared with.
OtherDates ==
    [y : {2022, 2023}, m : {0, 2, 3, 11}, d : {1, 31}, h : {0}]

\* new Date(y, m, d, h)
NewLocalDateTime(c, off) ==
    (c.y * 12 + c.m) * 744 + (c.d - 1) * 24 + c.h - off

InitPeriods ==
    /\ transactions = <<>>
    /\ tz \in HostOffsets
    /\ result = NoResult
    /\ summaries = NoSummaries
    /\ period \in [called : {FALSE}, a : PeriodDates, b : OtherDates]
    /\ parser = NoParser
    /\ app = NoApp

\* getCohortStartDate on both Dates, and once more on the first result.
CallGetCohortStartDate(cohortType) ==
    /\ ~period.called
    /\ LET dateA  == NewLocalDateTime(period.a, tz)
           dateB  == NewLocalDateTime(period.b, tz)
           startA == getCohortStartDate(dateA, cohortType, tz)
       IN  period' = [ called     |-> TRUE,
                       helper     |-> "getCohortStartDate",
                       cohortType |-> cohortType,
                       a          |-> period.a,
                       b          |-> period.b,
                       dateA      |-> dateA,
                       dateB      |-> dateB,
                       startA     |-> startA,
                       startB     |-> getCohortStartDate(dateB, cohortType, tz),
                       startAgain |-> getCohortStartDate(startA, cohortType, tz) ]
    /\ UNCHANGED <<transactions, tz, result, summaries, parser, app>>

\* formatCohortName on the bucket start of both Dates (lines 139-140).
CallFormatCohortName(cohortType) ==
    /\ ~period.called
    /\ LET dateA  == NewLocalDateTime(period.a, tz)
           dateB  == NewLocalDateTime(period.b, tz)
           startA == getCohortStartDate(dateA, cohortType, tz)
           startB == getCohortStartDate(dateB, cohortType, tz)
       IN  period' = [ called     |-> TRUE,
                       helper     |-> "formatCohortName",
                       cohortType |-> cohortType,
                       a          |-> period.a,
                       b          |-> period.b,
                       startA     |-> startA,
                       startB     |-> startB,
                       labelA     |-> formatCohortName(startA, cohortType, tz),
                       labelB     |-> formatCohortName(startB, cohortType, tz) ]
    /\ UNCHANGED <<transactions, tz, result, summaries, parser, app>>

\* getMonthDifference on the two Dates, and on the bucket start of the first
\* and each target date the calculator builds from it (lines 170-172).
CallGetMonthDifference(cohortType) ==
    /\ ~period.called
    /\ LET dateA   == NewLocalDateTime(period.a, tz)
           dateB   == NewLocalDateTime(period.b, tz)
           startA  == getCohortStartDate(dateA, cohortType, tz)
           targets == [monthOffset \in 0..Horizon |->
                          AddMonths(startA, monthOffset, tz)]
       IN  period' = [ called      |-> TRUE,
                       helper      |-> "getMonthDifference",
                       cohortType  |-> cohortType,
                       a           |-> period.a,
                       b           |-> period.b,
                       difference  |-> getMonthDifference(dateA, dateB, tz),
                       startA      |-> startA,
                       targets     |-> targets,
                       differences |-> [monthOffset \in 0..Horizon |->
                                           getMonthDifference(
                                               startA, targets[monthOffset], tz)] ]
    /\ UNCHANGED <<transactions, tz, result, summaries, parser, app>>

NextPeriods ==
    \E cohortType \in CohortTypes :
        \/ CallGetCohortStartDate(cohortType)
        \/ CallFormatCohortName(cohortType)
        \/ CallGetMonthDifference(cohortType)

SpecPeriods == InitPeriods /\ [][NextPeriods]_vars

-----------------------------------------------------------------------------
(* processTransactionData called on histories with rows of no revenue, with *)
(* a churn that carries an amount, and with a renewal that may follow it.   *)

HistoryShapes ==
    { [transactionType |-> "new",         arr |-> 1],
      [transactionType |-> "churn",       arr |-> 1],
      [transactionType |-> "contraction", arr |-> 0],
      [transactionType |-> "renewal",     arr |-> 2] }

HistoryTransaction ==
    { [ accountId       |-> a,
        transactionDate |-> d,
        arr             |-> sh.arr,
        transactionType |-> sh.transactionType ] :
      a \in AccountIds, d \in InputDates, sh \in HistoryShapes }

Histories ==
    { txs \in SeqsUpTo(HistoryTransaction, MaxTx) :
        txs # <<>> => txs[1].accountId = "A" }

InitHistories ==
    /\ transactions \in Histories
    /\ tz \in HostOffsets
    /\ result = NoResult
    /\ summaries = NoSummaries
    /\ period = NoPeriod
    /\ parser = NoParser
    /\ app = NoApp

ProcessTransactionData ==
    /\ ~summaries.called
    /\ summaries' = [ called    |-> TRUE,
                      customers |-> processTransactionData(transactions) ]
    /\ transactions' = InputAfterCall(transactions)
    /\ UNCHANGED <<tz, result, period, parser, app>>

NextHistories == ProcessTransactionData

SpecHistories == InitHistories /\ [][NextHistories]_vars

-----------------------------------------------------------------------------
(* The analysis called on histories whose revenue rises above and falls     *)
(* below the amount of the acquisition.                                     *)

RevenueShapes ==
    { [transactionType |-> "new",         arr |-> 2],
      [transactionType |-> "expansion",   arr |-> 3],
      [transactionType |-> "contraction", arr |-> 1] }

RevenueDates ==
    { [y |-> 2023, m |-> 1, d |-> 1],
      [y |-> 2023, m |-> 4, d |-> 1] }

RevenueTransaction ==
    { [ accountId       |-> a,
        transactionDate |-> d,
        arr             |-> sh.arr,
        transactionType |-> sh.transactionType ] :
      a \in AccountIds, d \in RevenueDates, sh \in RevenueShapes }

RevenueInputs ==
    { txs \in SeqsUpTo(RevenueTransaction, MaxTx) :
        txs # <<>> => txs[1].accountId = "A" }

InitRevenue ==
    /\ transactions \in RevenueInputs
    /\ tz \in HostOffsets
    /\ result = NoResult
    /\ summaries = NoSummaries
    /\ period = NoPeriod
    /\ parser = NoParser
    /\ app = NoApp

SpecRevenue == InitRevenue /\ [][Next]_vars

-----------------------------------------------------------------------------
(* The analysis called on the rows of two months of one quarter, in every   *)
(* order.                                                                   *)

OrderDates ==
    { [y |-> 2023, m |-> 1, d |-> 1],
      [y |-> 2023, m |-> 2, d |-> 15] }

OrderTransaction ==
    { [ accountId       |-> a,
        transactionDate |-> d,
        arr             |-> sh.arr,
        transactionType |-> sh.transactionType ] :
      a \in AccountIds, d \in OrderDates, sh \in InputShapes }

OrderInputs ==
    { txs \in SeqsUpTo(OrderTransaction, MaxTx) :
        txs # <<>> => txs[1].accountId = "A" }

InitOrder ==
    /\ transactions \in OrderInputs
    /\ tz \in HostOffsets
    /\ result = NoResult
    /\ summaries = NoSummaries
    /\ period = NoPeriod
    /\ parser = NoParser
    /\ app = NoApp

SpecOrder == InitOrder /\ [][Next]_vars

-----------------------------------------------------------------------------
(* parseTransactionCSV (csvParser.ts).  A row is given by the text of the   *)
(* cell found for each field; "" stands for a cell that is absent or empty  *)
(* under every accepted column name.  A value that may be null, NaN or an   *)
(* Invalid Date is written as a sequence: <<>> for that, <<v>> for v.       *)

\* The most rows a file has.
MaxRows == 2

CsvRows ==
    [ accountId       : {"", " ", "A"},
      transactionDate : {"", "soon", "2023-01-01"},
      arr             : {"", "abc", "-5", "0", "$1,000"},
      transactionType : {"", "upgrade", "Churn"},
      previousARR     : {"", "500"} ]

\* String.prototype.trim, toLowerCase and replace(/[,$]/g, '') on these cells.
Trim(text) == IF text = " " THEN "" ELSE text

ToLowerCase(text) == IF text = "Churn" THEN "churn" ELSE text

StripMoney(text) == IF text = "$1,000" THEN "1000" ELSE text

\* parseFloat on these texts.
parseFloat(text) ==
    CASE text = "1000" -> <<1000>>
      [] text = "500"  -> <<500>>
      [] text = "0"    -> <<0>>
      [] text = "-5"   -> <<-5>>
      [] OTHER         -> <<>>

\* new Date(text) on these texts.
NewDate(text) ==
    IF text = "2023-01-01" THEN <<ParseDate([y |-> 2023, m |-> 1, d |-> 1])>>
    ELSE <<>>

\* date.toISOString().split('T')[0]: the UTC calendar date of an instant.
ToISODate(t) ==
    [ y |-> (t \div 744) \div 12,
      m |-> ((t \div 744) % 12) + 1,
      d |-> ((t % 744) \div 24) + 1 ]

\* Lines 91-110: null for no cell, else the trimmed text.
findFieldValue(cell) == IF cell = "" THEN <<>> ELSE <<Trim(cell)>>

\* !value, for a value that is null or a string.
Not(value) == value = <<>> \/ value[1] = ""

RowError(index, text) == "Row " \o ToString(index + 2) \o ": " \o text

\* A range check that lets a negative amount through.
InvalidArr_NaNOnly(parsedArr) == parsedArr = <<>>

\* Line 159
InvalidArr(parsedArr) == parsedArr = <<>> \/ parsedArr[1] < 0

\* Lines 123-191, the body of the forEach callback for one row: what it
\* pushes on data and on errors.  Nothing in the try block throws on these
\* cells, so the catch of lines 189-191 is not entered.
ParseRowOutcome(row, index) ==
    LET accountId       == findFieldValue(row.accountId)
        transactionDate == findFieldValue(row.transactionDate)
        arr             == findFieldValue(row.arr)
        transactionType == findFieldValue(row.transactionType)
        previousARR     == findFieldValue(row.previousARR)
        parsedDate      == NewDate(transactionDate[1])
        parsedArr       == parseFloat(StripMoney(arr[1]))
        normalizedType  == Trim(ToLowerCase(transactionType[1]))
        parsedPreviousARR ==
            IF Not(previousARR) THEN <<>>
            ELSE parseFloat(StripMoney(previousARR[1]))
        Fail(text) == [data |-> <<>>, errors |-> <<RowError(index, text)>>]
    IN  IF Not(accountId) THEN Fail("Missing Account ID")
        ELSE IF Not(transactionDate) THEN Fail("Missing Transaction Date")
        ELSE IF Not(arr) THEN Fail("Missing ARR value")
        ELSE IF Not(transactionType) THEN Fail("Missing Transaction Type")
        ELSE IF parsedDate = <<>>
             THEN Fail("Invalid date format: " \o transactionDate[1])
        ELSE IF InvalidArr(parsedArr)
             THEN Fail("Invalid ARR value: " \o arr[1])
        ELSE IF normalizedType \notin TransactionTypes
             THEN Fail("Invalid transaction type: " \o transactionType[1]
                       \o ". Must be one of: new, expansion, contraction, churn, renewal")
        ELSE [ data   |-> << [ accountId       |-> accountId[1],
                               transactionDate |-> ToISODate(parsedDate[1]),
                               arr             |-> parsedArr[1],
                               transactionType |-> normalizedType,
                               previousARR     |-> parsedPreviousARR ] >>,
               errors |-> <<>> ]

\* The date cells here are ISO date-only texts, which new Date reads as UTC
\* and toISOString writes as UTC (lines 151, 183): one host offset stands
\* for all.
InitParser ==
    /\ transactions = <<>>
    /\ tz = 0
    /\ result = NoResult
    /\ summaries = NoSummaries
    /\ period = NoPeriod
    /\ parser = NoParser
    /\ app = NoApp

\* Lines 115-120: Papa.parse completes with the rows of the file.
PapaComplete(total) ==
    /\ parser.status = "idle"
    /\ parser' = [parser EXCEPT !.status = "parsing", !.total = total]
    /\ UNCHANGED <<transactions, tz, result, summaries, period, app>>

\* Lines 122-192: one turn of results.data.forEach.
ParseRow(row) ==
    /\ parser.status = "parsing"
    /\ parser.index < parser.total
    /\ LET outcome == ParseRowOutcome(row, parser.index)
       IN  parser' = [ status |-> "parsing",
                       total  |-> parser.total,
                       index  |-> parser.index + 1,
                       row    |-> row,
                       data   |-> parser.data \o outcome.data,
                       errors |-> parser.errors \o outcome.errors ]
    /\ UNCHANGED <<transactions, tz, result, summaries, period, app>>

\* Line 194: resolve({ data, errors, isTransactionFormat: true })
ResolveParse ==
    /\ parser.status = "parsing"
    /\ parser.index = parser.total
    /\ parser' = [parser EXCEPT !.status = "resolved"]
    /\ UNCHANGED <<transactions, tz, result, summaries, period, app>>

\* Lines 196-202: Papa.parse fails; no row is handled.
PapaError ==
    /\ parser.status = "idle"
    /\ parser' = [parser EXCEPT !.status = "failed",
                                !.errors = <<"CSV parsing error: ">>]
    /\ UNCHANGED <<transactions, tz, result, summaries, period, app>>

NextParser ==
    \/ \E total \in 0..MaxRows : PapaComplete(total)
    \/ \E row \in CsvRows : ParseRow(row)
    \/ ResolveParse
    \/ PapaError

SpecParser == InitParser /\ [][NextParser]_vars

-----------------------------------------------------------------------------
(* App (App.tsx) with its FileUpload component.  app holds the useState     *)
(* cells of App; cohortAnalysis is <<>> for null and <<analysis>> else.     *)
(* fileUpload says which of the two FileUpload components is mounted,       *)
(* isLoading and result are that component's state and the parse result it  *)
(* last awaited, and calls counts the objects calculateCohortAnalysis has   *)
(* returned.                                                                *)

\* The most calls of calculateCohortAnalysis in one run.
MaxCalls == 4

FileUploads == {"legacy", "smart"}

Customer(accountId) ==
    [accountId |-> accountId, closeDate |-> [y |-> 2023, m |-> 1, d |-> 1], arr |-> 1]

\* The customer lists a file is parsed to.
DataSets == { <<Customer("A")>>, <<Customer("A"), Customer("B")>> }

\* What parseSmartCSV resolves to (csvParser.ts lines 234-268): a file is of
\* one format, so one of the two lists is empty.
ParseResults ==
    { r \in [ customerData    : DataSets \cup {<<>>},
              transactionData : {<<>>, <<[ accountId       |-> "A",
                                         transactionDate |-> [y |-> 2023, m |-> 1, d |-> 1],
                                         arr             |-> 1,
                                         transactionType |-> "new" ]>>},
              errors          : {<<>>, <<"Row 3: Missing Account ID">>} ] :
        r.customerData = <<>> \/ r.transactionData = <<>> }

\* What parseCSV resolves to (csvParser.ts lines 22-88).
LegacyParseResults == { r \in ParseResults : r.transactionData = <<>> }

\* The object returned by one call: its values are drawn with Math.random
\* from the arguments, so it is told apart by the arguments it was made with
\* and by the call that made it.
calculateCohortAnalysis(data, cohortType, settings, call) ==
    [customers |-> data, cohortType |-> cohortType, settings |-> settings, object |-> call]

\* Lines 22-29
handleDataLoad(a, data) ==
    [a EXCEPT !.customerData = data,
              !.errors = <<>>,
              !.cohortAnalysis =
                  <<calculateCohortAnalysis(data, a.cohortType, a.analysisSettings, a.calls + 1)>>,
              !.calls = a.calls + 1]

\* A handler that recomputes with the grouping of the last render.
handleCohortTypeChange_StaleGrouping(a, newCohortType) ==
    IF Len(a.customerData) > 0
    THEN [a EXCEPT !.cohortType = newCohortType,
                   !.cohortAnalysis =
                       <<calculateCohortAnalysis(a.customerData, a.cohortType,
                                                 a.analysisSettings, a.calls + 1)>>,
                   !.calls = a.calls + 1]
    ELSE [a EXCEPT !.cohortType = newCohortType]

\* Lines 31-39
handleCohortTypeChange(a, newCohortType) ==
    IF Len(a.customerData) > 0
    THEN [a EXCEPT !.cohortType = newCohortType,
                   !.cohortAnalysis =
                       <<calculateCohortAnalysis(a.customerData, newCohortType,
                                                 a.analysisSettings, a.calls + 1)>>,
                   !.calls = a.calls + 1]
    ELSE [a EXCEPT !.cohortType = newCohortType]

\* Lines 41-49
handleAnalysisSettingsChange(a, newSettings) ==
    IF Len(a.customerData) > 0
    THEN [a EXCEPT !.analysisSettings = newSettings,
                   !.cohortAnalysis =
                       <<calculateCohortAnalysis(a.customerData, a.cohortType,
                                                 newSettings, a.calls + 1)>>,
                   !.calls = a.calls + 1]
    ELSE [a EXCEPT !.analysisSettings = newSettings]

\* Lines 51-53
handleError(a, newErrors) == [a EXCEPT !.errors = newErrors]

\* FileUpload.tsx (smart) lines 30-46 with the props of App.tsx line 123:
\* onDataLoad and onError are given, onSmartDataLoad is not.
handleFileSelect(a, res) ==
    LET reported == IF Len(res.errors) > 0 THEN handleError(a, res.errors) ELSE a
        hasData  == Len(res.customerData) > 0 \/ Len(res.transactionData) > 0
    IN  IF hasData
        THEN IF Len(res.customerData) > 0
             THEN handleDataLoad(reported, res.customerData)
             ELSE reported
        ELSE handleError(reported, <<"No valid data found in the CSV file">>)

\* FileUpload.tsx (legacy) lines 30-38
legacyHandleFileSelect(a, res) ==
    LET reported == IF Len(res.errors) > 0 THEN handleError(a, res.errors) ELSE a
    IN  IF Len(res.customerData) > 0
        THEN handleDataLoad(reported, res.customerData)
        ELSE handleError(reported, <<"No valid data found in the CSV file">>)

InitApp ==
    /\ transactions = <<>>
    /\ tz = 0
    /\ result = NoResult
    /\ summaries = NoSummaries
    /\ period = NoPeriod
    /\ parser = NoParser
    /\ app \in {[NoApp EXCEPT !.fileUpload = f] : f \in FileUploads}

\* handleFileSelect up to its await.  FileUpload is rendered only while
\* cohortAnalysis is null (App.tsx line 121) and its button is disabled
\* while isLoading.
SelectFile(name) ==
    /\ app.cohortAnalysis = <<>>
    /\ ~app.isLoading
    /\ app' = IF name = "data.csv"
              THEN [app EXCEPT !.isLoading = TRUE]
              ELSE handleError(app, <<"Please select a CSV file">>)
    /\ UNCHANGED <<transactions, tz, result, summaries, period, parser>>

\* handleFileSelect from the await on.  The parsers resolve always and the
\* handlers do not throw, so the catch is not entered.
ParseSettled(res) ==
    /\ app.isLoading
    /\ app.calls < MaxCalls
    /\ res.transactionData = <<>> \/ app.fileUpload = "smart"
    /\ LET settled == IF app.fileUpload = "smart"
                      THEN handleFileSelect(app, res)
                      ELSE legacyHandleFileSelect(app, res)
       IN  app' = [settled EXCEPT !.isLoading = FALSE, !.result = <<res>>]
    /\ UNCHANGED <<transactions, tz, result, summaries, period, parser>>

\* Settings is rendered only with an analysis (App.tsx lines 153, 194).
HandleCohortTypeChange(newCohortType) ==
    /\ app.cohortAnalysis # <<>>
    /\ app.calls < MaxCalls
    /\ app' = handleCohortTypeChange(app, newCohortType)
    /\ UNCHANGED <<transactions, tz, result, summaries, period, parser>>

\* AnalysisSettings is rendered only with an analysis (lines 153, 187).
HandleAnalysisSettingsChange(newSettings) ==
    /\ app.cohortAnalysis # <<>>
    /\ app.calls < MaxCalls
    /\ app' = handleAnalysisSettingsChange(app, newSettings)
    /\ UNCHANGED <<transactions, tz, result, summaries, period, parser>>

\* Lines 245-255, the onClick of Upload New Data.
Reset ==
    /\ app.cohortAnalysis # <<>>
    /\ app' = [app EXCEPT !.customerData = <<>>,
                          !.cohortAnalysis = <<>>,
                          !.errors = <<>>,
                          !.analysisSettings = DefaultSettings]
    /\ UNCHANGED <<transactions, tz, result, summaries, period, parser>>

NextApp ==
    \/ \E name \in {"notes.txt", "data.csv"} : SelectFile(name)
    \/ \E res \in ParseResults : ParseSettled(res)
    \/ \E newCohortType \in CohortTypes : HandleCohortTypeChange(newCohortType)
    \/ \E newSettings \in SettingsSet : HandleAnalysisSettingsChange(newSettings)
    \/ Reset

SpecApp == InitApp /\ [][NextApp]_vars

-----------------------------------------------------------------------------
(* Vocabulary of the properties: the report, and calendar dates as written *)
(* in the input, compared as dates and not as instants.                    *)

Cohorts == result.report.cohorts

AccountsOfInput == { transactions[i].accountId : i \in 1..Len(transactions) }

\* The derived summary of one account, and its contribution at an offset of
\* the cohort that lists it (lines 171-177).
SummaryOf(accountId) ==
    LET customers == processTransactionData(transactions)
    IN  customers[CHOOSE k \in 1..Len(customers) : customers[k].accountId = accountId]

Contribution(cohort, accountId, monthOffset) ==
    getCustomerRevenueForMonth(SummaryOf(accountId),
                               AddMonths(cohort.cohortDate, monthOffset, tz),
                               result.settings)

\* Months since year 0 of a written date, and of a cohort's bucket start.
CalMonth(d) == d.y * 12 + (d.m - 1)

BucketMonth(cohort) ==
    getFullYear(cohort.cohortDate, tz) * 12 + getMonth(cohort.cohortDate, tz)

\* The written date d is at or before the 1st of calendar month target.
DatedAtOrBefore(d, target) ==
    CalMonth(d) < target \/ (CalMonth(d) = target /\ d.d <= 1)

\* Row k of the input is chronologically after row l: a later written date,
\* or the same date and later in the input.
After(k, l) ==
    LET dk == transactions[k].transactionDate
        dl == transactions[l].transactionDate
    IN  \/ CalMonth(dk) > CalMonth(dl)
        \/ CalMonth(dk) = CalMonth(dl) /\ dk.d > dl.d
        \/ dk = dl /\ k > l

RowsOf(accountId) ==
    { k \in 1..Len(transactions) : transactions[k].accountId = accountId }

\* The account's rows dated at or before the 1st of calendar month target.
RowsUpTo(accountId, target) ==
    { k \in RowsOf(accountId) :
        DatedAtOrBefore(transactions[k].transactionDate, target) }

\* The chronologically last / first row of a non-empty set of rows.
LastRow(rows) == CHOOSE k \in rows : \A l \in rows \ {k} : After(k, l)

FirstRow(rows) == CHOOSE k \in rows : \A l \in rows \ {k} : After(l, k)

\* The account's 'new' rows, and those among them with positive revenue.
NewRows(accountId) ==
    { k \in RowsOf(accountId) : transactions[k].transactionType = "new" }

PositiveNewRows(accountId) ==
    { k \in NewRows(accountId) : transactions[k].arr > 0 }

-----------------------------------------------------------------------------
(* C1 *)

\* C1: in every report, every cohort's value at offset 0 equals its
\* initialRevenue, whatever the input, the granularity and the settings.
C1_MonthZeroIsInitialRevenue ==
    result.called =>
        \A i \in 1..Len(Cohorts) :
            Cohorts[i].retentionByMonth[0] = Cohorts[i].initialRevenue

\* A cohort with revenue whose total one month later is not its initial
\* revenue: offset 0 is not merely one more monthly total.
C1_Witness ==
    /\ result.called
    /\ \E i \in 1..Len(Cohorts) :
          /\ Cohorts[i].initialRevenue > 0
          /\ Cohorts[i].retentionByMonth[1] # Cohorts[i].initialRevenue

-----------------------------------------------------------------------------
(* C2 *)

\* The member contribution as the claim defines it, at the 1st of calendar
\* month target.
StatedContribution(accountId, target, settings) ==
    LET rows == RowsUpTo(accountId, target)
        r    == transactions[LastRow(rows)].arr
        news == PositiveNewRows(accountId)
    IN  IF rows = {} THEN 0
        ELSE IF transactions[LastRow(rows)].transactionType = "churn" THEN 0
        ELSE IF ~settings.includeExpansionARR /\ news # {}
             THEN Max(0, Min(r, transactions[FirstRow(news)].arr))
        ELSE Max(0, r)

\* C2: for every cohort and every offset m in 1..24 the cohort's value is
\* the sum over its members of the stated contribution at the 1st of the
\* month m calendar months after the bucket start: 0 without a transaction
\* dated at or before that day, 0 when the latest such is a churn, else the
\* latest revenue, clipped to the first positive 'new' revenue when
\* expansion is excluded.
C2_RetentionIsSumOfStatedContributions ==
    result.called =>
        \A i \in 1..Len(Cohorts) : \A m \in 1..Horizon :
            Cohorts[i].retentionByMonth[m] =
                SumSeq([j \in 1..Len(Cohorts[i].customers) |->
                    StatedContribution(Cohorts[i].customers[j].accountId,
                                       BucketMonth(Cohorts[i]) + m,
                                       result.settings)])

-----------------------------------------------------------------------------
(* C3 *)

\* C3: if a member's latest transaction dated at or before the target date of
\* offset m is a churn, the member contributes 0 at m and at every later
\* offset up to 24, unless a non-churn transaction of the member comes after
\* the churn and is dated at or before that later target date; for every
\* value of both settings.
C3_ChurnZeroing ==
    result.called =>
        \A i \in 1..Len(Cohorts) : \A j \in 1..Len(Cohorts[i].customers) :
            LET a == Cohorts[i].customers[j].accountId
            IN  \A m \in 1..Horizon :
                    LET rows == RowsUpTo(a, BucketMonth(Cohorts[i]) + m)
                    IN  (rows # {} /\ transactions[LastRow(rows)].transactionType = "churn")
                        => \A n \in m..Horizon :
                              (\A k \in RowsUpTo(a, BucketMonth(Cohorts[i]) + n) :
                                    After(k, LastRow(rows))
                                    => transactions[k].transactionType = "churn")
                              => Contribution(Cohorts[i], a, n) = 0

-----------------------------------------------------------------------------
(* C4 *)

\* The revenue of the member's original 'new' transaction, the one that is
\* its share of initialRevenue; 0 without a 'new' transaction.
OriginalNewRevenue(accountId) ==
    IF NewRows(accountId) = {} THEN 0
    ELSE transactions[FirstRow(NewRows(accountId))].arr

\* C4: with includeExpansionARR = false, no member's contribution at any
\* offset 1..24 exceeds the revenue of its original 'new' transaction (0 for
\* a member without one).
C4_ExpansionClipping ==
    (result.called /\ ~result.settings.includeExpansionARR) =>
        \A i \in 1..Len(Cohorts) : \A j \in 1..Len(Cohorts[i].customers) :
            \A m \in 1..Horizon :
                Contribution(Cohorts[i], Cohorts[i].customers[j].accountId, m)
                    <= OriginalNewRevenue(Cohorts[i].customers[j].accountId)

-----------------------------------------------------------------------------
(* C5 *)

\* The places <<cohort, position>> of the report that list accountId.
Listings(accountId) ==
    { p \in UNION { {<<i, j>> : j \in 1..Len(Cohorts[i].customers)} :
                    i \in 1..Len(Cohorts) } :
        Cohorts[p[1]].customers[p[2]].accountId = accountId }

\* C5: every distinct accountId of the input is listed by exactly one cohort,
\* exactly once; no cohort lists an accountId absent from the input; so the
\* cohort sizes sum to the number of distinct accountIds.
C5_CohortPartition ==
    result.called =>
        /\ \A a \in AccountsOfInput : Cardinality(Listings(a)) = 1
        /\ \A a \in AccountIds \ AccountsOfInput : Listings(a) = {}
        /\ SumSeq([i \in 1..Len(Cohorts) |-> Len(Cohorts[i].customers)])
              = Cardinality(AccountsOfInput)

\* Two accounts grouped into one cohort of two members.
C5_Witness ==
    /\ result.called
    /\ Cardinality(AccountsOfInput) = 2
    /\ Len(Cohorts) = 1
    /\ Len(Cohorts[1].customers) = 2

-----------------------------------------------------------------------------
(* C6 *)

\* C6: every value of every cohort, at every offset 0..24, is >= 0.
C6_NonNegativity ==
    result.called =>
        \A i \in 1..Len(Cohorts) : \A m \in 0..Horizon :
            Cohorts[i].retentionByMonth[m] >= 0

\* A cohort that had revenue and whose member has churned on a row carrying
\* an amount, with churned accounts not excluded: its value has fallen to 0.
C6_Witness ==
    /\ result.called
    /\ ~result.settings.excludeChurnedAccounts
    /\ \E k \in 1..Len(transactions) :
          transactions[k].transactionType = "churn" /\ transactions[k].arr > 0
    /\ \E i \in 1..Len(Cohorts) :
          /\ Cohorts[i].retentionByMonth[1] > 0
          /\ Cohorts[i].retentionByMonth[Horizon] = 0

-----------------------------------------------------------------------------
(* C7 *)

\* The offsets 1..24 at which some cohort of the report has a positive value.
PositiveOffsets ==
    { m \in 1..Horizon :
        \E i \in 1..Len(Cohorts) : Cohorts[i].retentionByMonth[m] > 0 }

\* C7: maxMonths is an integer in 0..24, the greatest offset of 1..24 at which
\* some cohort has a positive value and 0 when there is none; so no cohort has
\* a non-zero value at an offset above maxMonths.
C7_CapInvariant ==
    result.called =>
        /\ result.report.maxMonths \in 0..Horizon
        /\ PositiveOffsets = {} => result.report.maxMonths = 0
        /\ PositiveOffsets # {} =>
              /\ result.report.maxMonths \in PositiveOffsets
              /\ \A m \in PositiveOffsets : m <= result.report.maxMonths
        /\ \A i \in 1..Len(Cohorts) :
              \A m \in (result.report.maxMonths + 1)..Horizon :
                  Cohorts[i].retentionByMonth[m] = 0

\* Every member has churned before the horizon: maxMonths lies inside 1..23.
C7_Witness ==
    /\ result.called
    /\ result.report.maxMonths > 0
    /\ result.report.maxMonths < Horizon

-----------------------------------------------------------------------------
(* C9 *)

-----------------------------------------------------------------------------
(* C10 *)

\* C10: for the empty transaction sequence the call returns the report with
\* no cohorts and maxMonths = 0, for every granularity and settings.
C10_EmptyInput ==
    (result.called /\ transactions = <<>>) =>
        result.report = [cohorts |-> <<>>, maxMonths |-> 0]

\* The analysis has been called on the empty sequence.
C10_Witness ==
    /\ result.called
    /\ transactions = <<>>
    /\ result.cohortType = "month"
    /\ ~result.settings.includeExpansionARR

-----------------------------------------------------------------------------
(* C11 *)

\* C11: a call whose granularity is not month, quarter or year fails with
\* InvalidConfiguration: it returns no report, so no cohort with a bucket
\* start date and a label is produced.
C11_UnknownGranularityFails ==
    (result.called /\ result.cohortType \notin CohortTypes) =>
        /\ result.outcome = "InvalidConfiguration"
        /\ result.report.cohorts = <<>>

-----------------------------------------------------------------------------
(* C12 *)

\* C12: in every report the cohorts are in strictly ascending order of
\* cohortDate, and no two cohorts share a cohortDate or a cohortName,
\* whatever the order of the customers in the input.
C12_CohortsStrictlyAscending ==
    result.called =>
        /\ \A i \in 1..(Len(Cohorts) - 1) :
              Cohorts[i].cohortDate < Cohorts[i + 1].cohortDate
        /\ \A i, j \in 1..Len(Cohorts) :
              i # j => /\ Cohorts[i].cohortDate # Cohorts[j].cohortDate
                       /\ Cohorts[i].cohortName # Cohorts[j].cohortName

\* Two cohorts, and the customer of the first input row is in the later one:
\* the Map held the cohorts in the opposite order.
C12_Witness ==
    /\ result.called
    /\ Len(Cohorts) = 2
    /\ Cohorts[2].customers[1].accountId = transactions[1].accountId
    /\ Cohorts[1].customers[1].accountId # transactions[1].accountId

-----------------------------------------------------------------------------
(* C13 *)

\* The first month (from 0) of the Jan-Mar / Apr-Jun / Jul-Sep / Oct-Dec block
\* of each month, and the number of that block.
BlockFirstMonth == <<0, 0, 0, 3, 3, 3, 6, 6, 6, 9, 9, 9>>

BlockNumber == <<"1", "1", "1", "2", "2", "2", "3", "3", "3", "4", "4", "4">>

\* The first month of the bucket of a Date given by its local fields.
BucketFirstMonth(c, cohortType) ==
    CASE cohortType = "month"   -> c.m
      [] cohortType = "quarter" -> BlockFirstMonth[c.m + 1]
      [] cohortType = "year"    -> 0

\* C13: getCohortStartDate(date, g) is local midnight of day 1 of the date's
\* own month (month), of the first month of its calendar quarter (quarter),
\* of January of its year (year); it is in the date's year, it is not after
\* the date, and getCohortStartDate of it is itself.
C13_BucketStart ==
    (period.called /\ period.helper = "getCohortStartDate") =>
        /\ period.startA =
              NewLocalDateTime(
                  [y |-> period.a.y,
                   m |-> BucketFirstMonth(period.a, period.cohortType),
                   d |-> 1, h |-> 0], tz)
        /\ getFullYear(period.startA, tz) = period.a.y
        /\ period.startA <= period.dateA
        /\ period.startAgain = period.startA

\* The helper has been called for quarters on the last hour of a block.
C13_Witness ==
    /\ period.called
    /\ period.helper = "getCohortStartDate"
    /\ period.cohortType = "quarter"
    /\ period.a = [y |-> 2023, m |-> 11, d |-> 31, h |-> 23]
    /\ period.startA < period.dateA

-----------------------------------------------------------------------------
(* C14 *)

MonthNumber ==
    <<"01", "02", "03", "04", "05", "06", "07", "08", "09", "10", "11", "12">>

YearNumber(y) == CASE y = 2022 -> "2022" [] y = 2023 -> "2023"

\* C14: the label of a bucket start is "YYYY-MM" with the month counted from
\* 1 on two digits (month), "Q<n> YYYY" with n the number 1..4 of the
\* calendar quarter (quarter), "YYYY" (year); and for a fixed granularity two
\* dates get the same label exactly when they have the same bucket start.
C14_Label ==
    (period.called /\ period.helper = "formatCohortName") =>
        /\ period.labelA =
              CASE period.cohortType = "month" ->
                     YearNumber(period.a.y) \o "-" \o MonthNumber[period.a.m + 1]
                [] period.cohortType = "quarter" ->
                     "Q" \o BlockNumber[period.a.m + 1] \o " " \o YearNumber(period.a.y)
                [] period.cohortType = "year" ->
                     YearNumber(period.a.y)
        /\ (period.labelA = period.labelB) <=> (period.startA = period.startB)

\* Months: a one-digit month has been labelled, and two dates of one month
\* got one label.
C14_Witness ==
    /\ period.called
    /\ period.helper = "formatCohortName"
    /\ period.cohortType = "month"
    /\ period.a.m = 2
    /\ period.a.d # period.b.d
    /\ period.labelA = period.labelB

-----------------------------------------------------------------------------
(* C15 *)

\* Date.prototype.getDate and getHours, for the 1st of a month.
getDate(t, off) == ((t + off) % 744) \div 24 + 1

getHours(t, off) == (t + off) % 24

\* C15: getMonthDifference(a, b) = (year(b) - year(a)) * 12 + (month(b) -
\* month(a)) whatever the days; and for the bucket start s of a date and every
\* m in 0..24, the target date s advanced by m months is the 1st of a month
\* and getMonthDifference(s, target) = m.
C15_MonthDifference ==
    (period.called /\ period.helper = "getMonthDifference") =>
        /\ period.difference =
              (period.b.y - period.a.y) * 12 + (period.b.m - period.a.m)
        /\ \A m \in 0..Horizon :
              /\ getDate(period.targets[m], tz) = 1
              /\ getHours(period.targets[m], tz) = 0
              /\ period.differences[m] = m

\* A difference across a year boundary between dates of different days, from
\* a bucket start late enough in 2023 for the targets to reach 2025.
C15_Witness ==
    /\ period.called
    /\ period.helper = "getMonthDifference"
    /\ period.a.y = 2023 /\ period.b.y = 2022
    /\ period.a.d # period.b.d
    /\ period.difference < 0
    /\ getFullYear(period.targets[Horizon], tz) = 2025

-----------------------------------------------------------------------------
(* C16 *)

\* The row of a set of input rows that is p-th in chronological order.
RowAtRank(rows, p) ==
    CHOOSE k \in rows : Cardinality({l \in rows : l = k \/ After(k, l)}) = p

\* The written date d is strictly before the written date e.
DateBefore(d, e) ==
    CalMonth(d) < CalMonth(e) \/ (CalMonth(d) = CalMonth(e) /\ d.d < e.d)

\* C16: processTransactionData returns one summary per distinct accountId;
\* the summary's transactions are the account's input rows, each once and no
\* other, by non-decreasing date with rows of equal date in input order; and
\* firstTransactionDate is the earliest of their dates.
C16_Aggregation ==
    summaries.called =>
        LET cs == summaries.customers
        IN  /\ Len(cs) = Cardinality(AccountsOfInput)
            /\ {cs[k].accountId : k \in 1..Len(cs)} = AccountsOfInput
            /\ \A k \in 1..Len(cs) :
                  LET rows == RowsOf(cs[k].accountId)
                  IN  /\ Len(cs[k].transactions) = Cardinality(rows)
                      /\ \A p \in 1..Len(cs[k].transactions) :
                            cs[k].transactions[p] = transactions[RowAtRank(rows, p)]
                      /\ \E i \in rows :
                            transactions[i].transactionDate = cs[k].firstTransactionDate
                      /\ \A i \in rows :
                            ~DateBefore(transactions[i].transactionDate,
                                        cs[k].firstTransactionDate)

\* An account whose rows arrive latest first.
C16_Witness ==
    /\ summaries.called
    /\ Len(summaries.customers) = 1
    /\ \E i, j \in RowsOf("A") :
          /\ i < j
          /\ DateBefore(transactions[j].transactionDate,
                        transactions[i].transactionDate)
          /\ summaries.customers[1].transactions =
                <<transactions[j], transactions[i]>>

-----------------------------------------------------------------------------
(* C17 *)

\* C17: a summary's isActive is false exactly when the chronologically last
\* row of the account is a churn or has zero revenue; currentARR is that
\* row's revenue when isActive and 0 otherwise; no earlier row matters.
C17_CurrentStatus ==
    summaries.called =>
        \A k \in 1..Len(summaries.customers) :
            LET c    == summaries.customers[k]
                last == transactions[LastRow(RowsOf(c.accountId))]
            IN  /\ (c.isActive = FALSE)
                      <=> (last.transactionType = "churn" \/ last.arr = 0)
                /\ c.currentARR = IF c.isActive THEN last.arr ELSE 0

\* A customer who churned and then renewed: active, with the renewal's
\* revenue.
C17_Witness ==
    /\ summaries.called
    /\ \E k \in 1..Len(summaries.customers) :
          LET c == summaries.customers[k]
          IN  /\ Len(c.transactions) = 2
              /\ c.transactions[1].transactionType = "churn"
              /\ c.transactions[2].transactionType = "renewal"
              /\ c.isActive
              /\ c.currentARR = 2

-----------------------------------------------------------------------------
(* C18 *)

\* The written date of the account's chronologically first row, and the
\* cohort of the report that lists the account.
EarliestDate(accountId) ==
    transactions[FirstRow(RowsOf(accountId))].transactionDate

CohortOf(accountId) ==
    CHOOSE i \in 1..Len(Cohorts) :
        \E j \in 1..Len(Cohorts[i].customers) :
            Cohorts[i].customers[j].accountId = accountId

\* C18: a cohort's initialRevenue is the sum over its members of the revenue
\* of the member's chronologically first 'new' row (0 without one), a
\* quantity of the input alone and so the same for all settings; and under
\* quarter granularity two customers whose earliest rows are dated in
\* different months of one calendar quarter are members of one cohort, whose
\* initialRevenue therefore counts both.
C18_InitialRevenue ==
    result.called =>
        /\ \A i \in 1..Len(Cohorts) :
              Cohorts[i].initialRevenue =
                  SumSeq([j \in 1..Len(Cohorts[i].customers) |->
                      OriginalNewRevenue(Cohorts[i].customers[j].accountId)])
        /\ result.cohortType = "quarter" =>
              \A a, b \in AccountsOfInput :
                  ( /\ EarliestDate(a).y = EarliestDate(b).y
                    /\ EarliestDate(a).m # EarliestDate(b).m
                    /\ BlockFirstMonth[EarliestDate(a).m]
                          = BlockFirstMonth[EarliestDate(b).m] )
                  => CohortOf(a) = CohortOf(b)

-----------------------------------------------------------------------------
(* C19 *)

\* C19: the cohort a customer is placed in is the bucket of the date of the
\* customer's chronologically first row, a quantity that no other row of the
\* customer and no row of another customer enters: whatever rows follow the
\* earliest one, the customer is listed by the cohort labelled with the
\* bucket of that date, and by no other.
C19_CohortByEarliestDate ==
    result.called =>
        \A a \in AccountsOfInput :
            \A i \in 1..Len(Cohorts) :
                (\E j \in 1..Len(Cohorts[i].customers) :
                    Cohorts[i].customers[j].accountId = a)
                <=> Cohorts[i].cohortName =
                        formatCohortName(
                            getCohortStartDate(ParseDate(EarliestDate(a)),
                                               result.cohortType, tz),
                            result.cohortType, tz)

\* Under month granularity a customer has two rows of different months, the
\* later one a 'new' row given first in the input, and is in one cohort only.
C19_Witness ==
    /\ result.called
    /\ result.cohortType = "month"
    /\ Len(transactions) = 2
    /\ transactions[1].accountId = transactions[2].accountId
    /\ transactions[1].transactionDate.m > transactions[2].transactionDate.m
    /\ transactions[1].transactionType = "new"
    /\ Len(Cohorts) = 1
    /\ Len(Cohorts[1].customers) = 1

-----------------------------------------------------------------------------
(* C20 *)

\* The written date d is the first day of a bucket of the granularity.
IsBucketStart(d, cohortType) ==
    /\ d.d = 1
    /\ CASE cohortType = "month"   -> TRUE
         [] cohortType = "quarter" -> BlockFirstMonth[d.m] = d.m - 1
         [] cohortType = "year"    -> d.m = 1

\* C20: a row dated on the target date of an offset counts at that offset:
\* for a single customer with a 'new' row of revenue r0 dated on a bucket
\* start and an 'expansion' row of revenue r1 dated on the 1st of the month
\* k months later, 1 <= k <= 24, and includeExpansionARR = true, the one
\* cohort has value r0 at offsets 0..k-1 and r1 at offsets k..24.
C20_BoundaryDateCounts ==
    ( /\ result.called
      /\ result.settings.includeExpansionARR
      /\ Len(transactions) = 2
      /\ transactions[1].accountId = transactions[2].accountId
      /\ transactions[1].transactionType = "new"
      /\ transactions[2].transactionType = "expansion"
      /\ IsBucketStart(transactions[1].transactionDate, result.cohortType)
      /\ transactions[2].transactionDate.d = 1
      /\ CalMonth(transactions[2].transactionDate)
            - CalMonth(transactions[1].transactionDate) \in 1..Horizon )
    => LET k == CalMonth(transactions[2].transactionDate)
                  - CalMonth(transactions[1].transactionDate)
       IN  /\ Len(Cohorts) = 1
           /\ \A m \in 0..Horizon :
                 Cohorts[1].retentionByMonth[m] =
                     IF m < k THEN transactions[1].arr ELSE transactions[2].arr

-----------------------------------------------------------------------------
(* C21 *)

\* The label of the calendar bucket of a written date.
WrittenLabel(d, cohortType) ==
    CASE cohortType = "month"   -> YearNumber(d.y) \o "-" \o MonthNumber[d.m]
      [] cohortType = "quarter" -> "Q" \o BlockNumber[d.m] \o " " \o YearNumber(d.y)
      [] cohortType = "year"    -> YearNumber(d.y)

\* C21: a customer whose first row is dated on the first day of a bucket is
\* placed in the cohort of that calendar bucket, the one labelled with the
\* year and month written in the date string, at every UTC offset of the
\* host.
C21_FirstDayOfBucket ==
    result.called =>
        \A a \in AccountsOfInput :
            IsBucketStart(EarliestDate(a), result.cohortType) =>
                Cohorts[CohortOf(a)].cohortName =
                    WrittenLabel(EarliestDate(a), result.cohortType)

-----------------------------------------------------------------------------
(* C22 *)

\* The account's history starts with a 'new' row of positive revenue, holds
\* no churn, and its revenue never decreases from one row to the next.
GrowsOnly(accountId) ==
    LET rows == RowsOf(accountId)
        n    == Cardinality(rows)
    IN  /\ transactions[RowAtRank(rows, 1)].transactionType = "new"
        /\ transactions[RowAtRank(rows, 1)].arr > 0
        /\ \A k \in rows : transactions[k].transactionType # "churn"
        /\ \A p \in 1..(n - 1) :
              transactions[RowAtRank(rows, p)].arr
                  <= transactions[RowAtRank(rows, p + 1)].arr

\* C22: a value below the initial revenue arises only from contraction or
\* churn: with includeExpansionARR = true, a cohort all of whose members
\* start with a 'new' row of positive revenue, never churn and never decrease
\* has retentionByMonth[m] >= initialRevenue at every offset m in 1..24, for
\* every granularity.
C22_NoDipWithoutContractionOrChurn ==
    (result.called /\ result.settings.includeExpansionARR) =>
        \A i \in 1..Len(Cohorts) :
            (\A j \in 1..Len(Cohorts[i].customers) :
                GrowsOnly(Cohorts[i].customers[j].accountId))
            => \A m \in 1..Horizon :
                  Cohorts[i].retentionByMonth[m] >= Cohorts[i].initialRevenue

-----------------------------------------------------------------------------
(* C23 *)

\* C23: values above the initial revenue exist only when expansion is
\* included: with includeExpansionARR = false, every cohort has
\* retentionByMonth[m] <= initialRevenue at every offset m in 0..24.
C23_NoGrowthWithoutExpansion ==
    (result.called /\ ~result.settings.includeExpansionARR) =>
        \A i \in 1..Len(Cohorts) : \A m \in 0..Horizon :
            Cohorts[i].retentionByMonth[m] <= Cohorts[i].initialRevenue

-----------------------------------------------------------------------------
(* C24 *)

-----------------------------------------------------------------------------
(* C25 *)

\* The member's contribution at an offset of its cohort under the settings of
\* the call with includeExpansionARR set to include.
ContributionWith(cohort, accountId, monthOffset, include) ==
    getCustomerRevenueForMonth(
        SummaryOf(accountId),
        AddMonths(cohort.cohortDate, monthOffset, tz),
        [result.settings EXCEPT !.includeExpansionARR = include])

\* C25: turning expansion off never increases a value: the report with
\* includeExpansionARR = false has the cohorts, members, initialRevenue and
\* offset-0 values of the report with includeExpansionARR = true, and at
\* every offset 1..24 each cohort's value is <= the value with expansion
\* included; and a member whose revenue has contracted below the original
\* amount contributes the same under both settings.
C25_ExpansionOffNeverIncreases ==
    (result.called /\ ~result.settings.includeExpansionARR) =>
        LET with == calculateRealCohortAnalysis(
                        transactions, result.cohortType,
                        [result.settings EXCEPT !.includeExpansionARR = TRUE],
                        tz).cohorts
        IN  /\ Len(Cohorts) = Len(with)
            /\ \A i \in 1..Len(Cohorts) :
                  /\ Cohorts[i].cohortName = with[i].cohortName
                  /\ Cohorts[i].cohortDate = with[i].cohortDate
                  /\ Cohorts[i].customers = with[i].customers
                  /\ Cohorts[i].initialRevenue = with[i].initialRevenue
                  /\ Cohorts[i].retentionByMonth[0] = with[i].retentionByMonth[0]
                  /\ \A m \in 1..Horizon :
                        Cohorts[i].retentionByMonth[m] <= with[i].retentionByMonth[m]
                  /\ \A j \in 1..Len(Cohorts[i].customers), m \in 1..Horizon :
                        LET a == Cohorts[i].customers[j].accountId
                        IN  ContributionWith(Cohorts[i], a, m, TRUE)
                                < OriginalNewRevenue(a)
                            => ContributionWith(Cohorts[i], a, m, FALSE)
                                = ContributionWith(Cohorts[i], a, m, TRUE)

\* With expansion off, a customer acquired at 2 has contracted to 1 and the
\* cohort reports 1.
C25_Witness ==
    /\ result.called
    /\ ~result.settings.includeExpansionARR
    /\ Len(transactions) = 2
    /\ Len(Cohorts) = 1
    /\ Cohorts[1].initialRevenue = 2
    /\ transactions[2].transactionType = "contraction"
    /\ Cohorts[1].retentionByMonth[Horizon] = 1

-----------------------------------------------------------------------------
(* C26 *)

\* No two rows of one customer share a date.
DistinctDatesPerCustomer ==
    \A k, l \in 1..Len(transactions) :
        ( /\ k # l
          /\ transactions[k].accountId = transactions[l].accountId )
        => transactions[k].transactionDate # transactions[l].transactionDate

MembersOf(cohort) ==
    { cohort.customers[j].accountId : j \in 1..Len(cohort.customers) }

\* C26: when no two rows of one customer share a date, every permutation of
\* the input gives a report with the same cohort names in the same order,
\* the same set of members, initialRevenue and retentionByMonth in each
\* cohort, and the same maxMonths.
C26_InputOrderIrrelevant ==
    (result.called /\ DistinctDatesPerCustomer) =>
        \A p \in Permutations(1..Len(transactions)) :
            LET permuted == [i \in 1..Len(transactions) |-> transactions[p[i]]]
                other    == calculateRealCohortAnalysis(
                                permuted, result.cohortType, result.settings, tz)
            IN  /\ Len(other.cohorts) = Len(Cohorts)
                /\ \A i \in 1..Len(Cohorts) :
                      /\ other.cohorts[i].cohortName = Cohorts[i].cohortName
                      /\ MembersOf(other.cohorts[i]) = MembersOf(Cohorts[i])
                      /\ other.cohorts[i].initialRevenue = Cohorts[i].initialRevenue
                      /\ other.cohorts[i].retentionByMonth = Cohorts[i].retentionByMonth
                /\ other.maxMonths = result.report.maxMonths

\* Two customers of different months given latest first, under month
\* granularity: the permuted input fills the Map in the other order.
C26_Witness ==
    /\ result.called
    /\ DistinctDatesPerCustomer
    /\ Len(transactions) = 2
    /\ transactions[1].accountId # transactions[2].accountId
    /\ Len(Cohorts) = 2
    /\ Cohorts[2].customers[1].accountId = transactions[1].accountId

-----------------------------------------------------------------------------
(* C27 *)

\* C27: for every cohort and every one of its members, getCohortStartDate of
\* the member's first transaction date is the cohort's cohortDate and
\* formatCohortName of that date is the cohort's cohortName, although
\* cohortDate is computed from the first member only.
C27_CohortConsistency ==
    result.called =>
        \A i \in 1..Len(Cohorts) : \A j \in 1..Len(Cohorts[i].customers) :
            LET start == getCohortStartDate(
                             ParseDate(Cohorts[i].customers[j].closeDate),
                             result.cohortType, tz)
            IN  /\ start = Cohorts[i].cohortDate
                /\ formatCohortName(start, result.cohortType, tz)
                      = Cohorts[i].cohortName

\* A cohort of two members whose first transactions have different dates.
C27_Witness ==
    /\ result.called
    /\ \E i \in 1..Len(Cohorts) :
          /\ Len(Cohorts[i].customers) = 2
          /\ Cohorts[i].customers[1].closeDate # Cohorts[i].customers[2].closeDate

-----------------------------------------------------------------------------
(* C30 *)

\* The row has an account id, a parseable date, a number >= 0 as revenue and
\* a kind among the five, as written in its cells.
WellFormedRow(row) ==
    /\ row.accountId = "A"
    /\ row.transactionDate = "2023-01-01"
    /\ row.arr \in {"0", "$1,000"}
    /\ row.transactionType = "Churn"

\* The record is one the analysis may be given.
WellFormedRecord(record) ==
    /\ record.accountId # ""
    /\ record.transactionDate \in [y : 1970..2100, m : 1..12, d : 1..31]
    /\ record.arr \in Nat
    /\ record.transactionType \in TransactionTypes

\* The error messages of row number n (the row's index + 2).
ErrorsNaming(n) ==
    LET texts == {"Missing Account ID", "Missing Transaction Date",
                  "Missing ARR value", "Missing Transaction Type",
                  "Invalid date format: soon",
                  "Invalid ARR value: abc", "Invalid ARR value: -5",
                  "Invalid transaction type: upgrade. Must be one of: new, expansion, contraction, churn, renewal"}
    IN  {"Row " \o ToString(n) \o ": " \o text : text \in texts}

\* C30: every row is handled by exactly one outcome: one record appended to
\* data, well formed, and no error; or one error naming the row's index + 2
\* appended and no record.  So records plus errors count the rows handled,
\* and every record of data is well formed.
C30_OneOutcomePerRow ==
    /\ [](parser.status \in {"parsing", "resolved"} =>
            /\ Len(parser.data) + Len(parser.errors) = parser.index
            /\ parser.status = "resolved" => parser.index = parser.total
            /\ \A k \in 1..Len(parser.data) : WellFormedRecord(parser.data[k]))
    /\ [][parser'.index # parser.index =>
            \/ /\ WellFormedRow(parser'.row)
               /\ Len(parser'.data) = Len(parser.data) + 1
               /\ SubSeq(parser'.data, 1, Len(parser.data)) = parser.data
               /\ parser'.errors = parser.errors
            \/ /\ ~WellFormedRow(parser'.row)
               /\ parser'.data = parser.data
               /\ Len(parser'.errors) = Len(parser.errors) + 1
               /\ SubSeq(parser'.errors, 1, Len(parser.errors)) = parser.errors
               /\ parser'.errors[Len(parser'.errors)]
                     \in ErrorsNaming(parser.index + 2)]_vars

\* A file of two rows has been parsed to one record and one error, the
\* error for a negative amount.
C30_Witness ==
    /\ parser.status = "resolved"
    /\ parser.total = 2
    /\ Len(parser.data) = 1
    /\ parser.errors = <<"Row 3: Invalid ARR value: -5">>

-----------------------------------------------------------------------------
(* C28 *)

\* C28: whenever cohortAnalysis is non-null it is the object of the latest
\* call of calculateCohortAnalysis and was made with the customerData,
\* cohortType and analysisSettings now in state; a change of grouping or
\* of settings that leaves data loaded makes a new call; and a step that
\* takes the analysis away also empties customerData and errors and puts
\* the default settings back.
C28_AnalysisIsCurrent ==
    /\ [](app.cohortAnalysis # <<>> =>
            /\ app.cohortAnalysis[1].object = app.calls
            /\ app.cohortAnalysis[1].customers = app.customerData
            /\ app.cohortAnalysis[1].cohortType = app.cohortType
            /\ app.cohortAnalysis[1].settings = app.analysisSettings)
    /\ [][/\ (/\ Len(app.customerData) > 0
              /\ Len(app'.customerData) > 0
              /\ \/ app'.cohortType # app.cohortType
                 \/ app'.analysisSettings # app.analysisSettings)
              => /\ app'.calls = app.calls + 1
                 /\ app'.cohortAnalysis # <<>>
                 /\ app'.cohortAnalysis[1].object = app'.calls
          /\ (app.cohortAnalysis # <<>> /\ app'.cohortAnalysis = <<>>)
              => /\ app'.customerData = <<>>
                 /\ app'.errors = <<>>
                 /\ app'.analysisSettings = DefaultSettings]_vars

\* After a load, a change of grouping to month and a change of settings,
\* the analysis is the third object, made by month with the new settings.
C28_Witness ==
    /\ app.calls = 3
    /\ app.cohortType = "month"
    /\ app.analysisSettings = [includeExpansionARR |-> FALSE, excludeChurnedAccounts |-> TRUE]
    /\ app.cohortAnalysis # <<>>
    /\ app.cohortAnalysis[1].object = 3
    /\ app.cohortAnalysis[1].cohortType = "month"

-----------------------------------------------------------------------------
(* C29 *)

\* C29: when an upload settles on a parse result with row errors and at
\* least one valid record, the analysis is present and the errors list is
\* empty; when it settles on one with no valid record, there is no
\* analysis and the errors list is the single 'No valid data found in the
\* CSV file'.
C29_ErrorsDroppedWhenDataLoads ==
    [][(app.isLoading /\ ~app'.isLoading) =>
        LET res == app'.result[1]
            records == Len(res.customerData) + Len(res.transactionData)
        IN  /\ (Len(res.errors) > 0 /\ records > 0)
                => (app'.cohortAnalysis # <<>> /\ app'.errors = <<>>)
            /\ records = 0
                => /\ app'.cohortAnalysis = <<>>
                   /\ app'.errors = <<"No valid data found in the CSV file">>]_vars

====
